---- MODULE Spec2Model ----
(***************************************************************************)
(* String analytics service (src/api.py, src/schema.py, src/utils.py,      *)
(* src/main.py): the in-memory store, the free-text query parser, the      *)
(* filter evaluator, the five HTTP handlers and the route table.           *)
(*                                                                         *)
(* Python str values are TLA+ strings (Len, SubSeq and \o act on them).    *)
(* An Optional[T] value is Nothing (None) or Some(v).                      *)
(***************************************************************************)
EXTENDS Integers, Sequences, FiniteSets, TLC

VARIABLES
    _STRING_STORE,  \* api.py:31, the dict in insertion order: a sequence of slots
    clock,          \* the value datetime.utcnow() returns next
    request,        \* the call or HTTP request being served, Nothing when idle
    response,       \* its outcome, Nothing until the handler has run
    pc,             \* per worker thread: the position inside its handler
    frame,          \* per worker thread: the locals of its handler
    seen            \* per worker thread: the contents the store has had since
                    \* the thread's request began (history, read by no handler)

vars == <<_STRING_STORE, clock, request, response, pc, frame, seen>>

threads == <<pc, frame, seen>>

---------------------------------------------------------------------------
(* Optional values and small helpers *)

Nothing == <<>>

Some(v) == <<v>>

IsSome(o) == o # Nothing

Val(o) == o[1]

Max(a, b) == IF a >= b THEN a ELSE b

Min(a, b) == IF a <= b THEN a ELSE b

MinOf(S) == CHOOSE x \in S : \A y \in S : x <= y

---------------------------------------------------------------------------
(* Python str operations *)

ascii_uppercase == "ABCDEFGHIJKLMNOPQRSTUVWXYZ"

ascii_lowercase == "abcdefghijklmnopqrstuvwxyz"

digits == "0123456789"

Whitespace == {" ", "\t"}

CharAt(s, i) == SubSeq(s, i, i)

CharsOf(s) == {CharAt(s, i) : i \in 1..Len(s)}

IndexIn(alphabet, c) == CHOOSE i \in 1..Len(alphabet) : CharAt(alphabet, i) = c

LowerChar(c) ==
    IF c \in CharsOf(ascii_uppercase)
    THEN CharAt(ascii_lowercase, IndexIn(ascii_uppercase, c))
    ELSE c

RECURSIVE lower(_)
lower(s) ==
    IF s = "" THEN ""
    ELSE LowerChar(CharAt(s, 1)) \o lower(SubSeq(s, 2, Len(s)))

strip(s) ==
    LET keep == {i \in 1..Len(s) : CharAt(s, i) \notin Whitespace}
    IN  IF keep = {} THEN ""
        ELSE SubSeq(s, MinOf(keep), CHOOSE j \in keep : \A k \in keep : k <= j)

RECURSIVE reversed(_)
reversed(s) ==
    IF s = "" THEN ""
    ELSE reversed(SubSeq(s, 2, Len(s))) \o CharAt(s, 1)

\* p in s
StartsWithAt(s, i, p) ==
    /\ i + Len(p) - 1 <= Len(s)
    /\ SubSeq(s, i, i + Len(p) - 1) = p

Contains(s, p) == \E i \in 1..(Len(s) + 1) : StartsWithAt(s, i, p)

\* len(s.split()): the number of maximal runs of non-whitespace
SplitCount(s) ==
    Cardinality({i \in 1..Len(s) :
        /\ CharAt(s, i) \notin Whitespace
        /\ (i = 1 \/ CharAt(s, i - 1) \in Whitespace)})

RECURSIVE int(_)
int(s) ==
    IF s = "" THEN 0
    ELSE 10 * int(SubSeq(s, 1, Len(s) - 1))
         + (IndexIn(digits, CharAt(s, Len(s))) - 1)

---------------------------------------------------------------------------
(* re.search for the patterns of _parse_natural_language_query *)

\* the first index >= i whose character is not in chars (Len(s) + 1 if none)
SkipRun(s, i, chars) ==
    MinOf({j \in i..(Len(s) + 1) : j = Len(s) + 1 \/ CharAt(s, j) \notin chars})

NoMatch == [found |-> FALSE, group1 |-> ""]

\* <lit>\s+(\d+)\s+character anchored at index i
NumberPatternAt(s, i, lit) ==
    LET a == i + Len(lit)
        b == SkipRun(s, a, Whitespace)
        c == SkipRun(s, b, CharsOf(digits))
        d == SkipRun(s, c, Whitespace)
    IN  IF /\ StartsWithAt(s, i, lit)
           /\ b > a
           /\ c > b
           /\ d > c
           /\ StartsWithAt(s, d, "character")
        THEN [found |-> TRUE, group1 |-> SubSeq(s, b, c - 1)]
        ELSE NoMatch

\* <lit>\s+([a-z]) anchored at index i
LetterPatternAt(s, i, lit) ==
    LET a == i + Len(lit)
        b == SkipRun(s, a, Whitespace)
    IN  IF /\ StartsWithAt(s, i, lit)
           /\ b > a
           /\ b <= Len(s)
           /\ CharAt(s, b) \in CharsOf(ascii_lowercase)
        THEN [found |-> TRUE, group1 |-> CharAt(s, b)]
        ELSE NoMatch

\* re.search(r"(?:alt1|alt2)\s+(\d+)\s+character", s): the match at the leftmost
\* index where some alternative matches, the alternatives tried in the order written
re_search_number(alts, s) ==
    LET at(i, k) == NumberPatternAt(s, i, alts[k])
        hits == {i \in 1..Len(s) : \E k \in 1..Len(alts) : at(i, k).found}
    IN  IF hits = {} THEN NoMatch
        ELSE LET i == MinOf(hits)
             IN  at(i, MinOf({k \in 1..Len(alts) : at(i, k).found}))

\* re.search(r"(?:alt1|alt2)\s+([a-z])", s)
re_search_letter(alts, s) ==
    LET at(i, k) == LetterPatternAt(s, i, alts[k])
        hits == {i \in 1..Len(s) : \E k \in 1..Len(alts) : at(i, k).found}
    IN  IF hits = {} THEN NoMatch
        ELSE LET i == MinOf(hits)
             IN  at(i, MinOf({k \in 1..Len(alts) : at(i, k).found}))

---------------------------------------------------------------------------
(* Python dict with str keys: a function on the set of its keys *)

EmptyDict == <<>>

Put(d, k, v) == [x \in (DOMAIN d) \cup {k} |-> IF x = k THEN v ELSE d[x]]

Get(d, k, default) == IF k \in DOMAIN d THEN d[k] ELSE default

---------------------------------------------------------------------------
(* src/schema.py: AppliedFilters *)

FilterFields ==
    {"is_palindrome", "min_length", "max_length", "word_count", "contains_character"}

contains_character_min_length == 1

contains_character_max_length == 1

\* pydantic's validation of AppliedFilters(**kwargs); kwargs maps a field name to
\* an Optional value. The length fields carry no range constraint.
AppliedFiltersValid(kwargs) ==
    /\ (DOMAIN kwargs) \subseteq FilterFields
    /\ \/ "contains_character" \notin DOMAIN kwargs
       \/ ~IsSome(kwargs["contains_character"])
       \/ /\ Len(Val(kwargs["contains_character"])) >= contains_character_min_length
          /\ Len(Val(kwargs["contains_character"])) <= contains_character_max_length

\* the constructed model: every field not given defaults to None
AppliedFilters(kwargs) ==
    [is_palindrome |-> Get(kwargs, "is_palindrome", Nothing),
     min_length |-> Get(kwargs, "min_length", Nothing),
     max_length |-> Get(kwargs, "max_length", Nothing),
     word_count |-> Get(kwargs, "word_count", Nothing),
     contains_character |-> Get(kwargs, "contains_character", Nothing)]

\* filters.model_dump(exclude_none=True): the fields that are not None
model_dump_exclude_none(filters) ==
    LET keys == {k \in FilterFields : IsSome(filters[k])}
    IN  [k \in keys |-> Val(filters[k])]

---------------------------------------------------------------------------
(* Outcome of a call: a returned value or a raised HTTPException *)

HTTP_200_OK == 200

HTTP_201_CREATED == 201

HTTP_204_NO_CONTENT == 204

HTTP_400_BAD_REQUEST == 400

HTTP_404_NOT_FOUND == 404

HTTP_409_CONFLICT == 409

HTTP_422_UNPROCESSABLE_ENTITY == 422

HTTP_500_INTERNAL_SERVER_ERROR == 500

Return(v) == [raised |-> FALSE, value |-> v]

HTTPException(code, text) == [raised |-> TRUE, status_code |-> code, detail |-> text]

---------------------------------------------------------------------------
(* src/api.py: _parse_natural_language_query, one operator per recognition rule *)

rule_palindrome(normalized, inferred) ==
    IF Contains(normalized, "palindrom")
    THEN Put(inferred, "is_palindrome", TRUE)
    ELSE inferred

rule_single_word(normalized, inferred) ==
    IF Contains(normalized, "single word") \/ Contains(normalized, "one word")
    THEN Put(inferred, "word_count", 1)
    ELSE inferred

\* "longer than N" read as N rather than N + 1
rule_longer_than_inclusive(normalized, inferred) ==
    LET longer_match == re_search_number(<<"longer than">>, normalized)
    IN  IF longer_match.found
        THEN Put(inferred, "min_length", int(longer_match.group1))
        ELSE inferred

rule_longer_than(normalized, inferred) ==
    LET longer_match == re_search_number(<<"longer than">>, normalized)
    IN  IF longer_match.found
        THEN Put(inferred, "min_length", int(longer_match.group1) + 1)
        ELSE inferred

\* a second min_length rule that keeps the smaller bound
rule_at_least_min(normalized, inferred) ==
    LET at_least_match == re_search_number(<<"at least">>, normalized)
    IN  IF at_least_match.found
        THEN Put(inferred, "min_length",
                 Min(int(at_least_match.group1),
                     Get(inferred, "min_length", int(at_least_match.group1))))
        ELSE inferred

rule_at_least(normalized, inferred) ==
    LET at_least_match == re_search_number(<<"at least">>, normalized)
    IN  IF at_least_match.found
        THEN Put(inferred, "min_length",
                 Max(int(at_least_match.group1), Get(inferred, "min_length", 0)))
        ELSE inferred

rule_shorter_than(normalized, inferred) ==
    LET shorter_match == re_search_number(<<"shorter than">>, normalized)
    IN  IF shorter_match.found
        THEN Put(inferred, "max_length", int(shorter_match.group1) - 1)
        ELSE inferred

rule_at_most(normalized, inferred) ==
    LET at_most_match == re_search_number(<<"at most", "no more than">>, normalized)
    IN  IF at_most_match.found
        THEN Put(inferred, "max_length",
                 Min(int(at_most_match.group1),
                     Get(inferred, "max_length", int(at_most_match.group1))))
        ELSE inferred

rule_letter(normalized, inferred) ==
    LET letter_match == re_search_letter(<<"letter", "character">>, normalized)
    IN  IF letter_match.found
        THEN Put(inferred, "contains_character", letter_match.group1)
        ELSE inferred

\* the substring test misspelt, so that the rule never fires on "first vowel"
rule_first_vowel_misspelt(normalized, inferred) ==
    IF Contains(normalized, "frist vowel")
    THEN Put(inferred, "contains_character", "a")
    ELSE inferred

rule_first_vowel(normalized, inferred) ==
    IF Contains(normalized, "first vowel")
    THEN Put(inferred, "contains_character", "a")
    ELSE inferred

\* contain(?:ing)? the letter\s+([a-z]): the optional group greedy, tried first
rule_contains_letter(normalized, inferred) ==
    LET contains_letter_match ==
            re_search_letter(<<"containing the letter", "contain the letter">>, normalized)
    IN  IF contains_letter_match.found
        THEN Put(inferred, "contains_character", contains_letter_match.group1)
        ELSE inferred

\* lines 121-162: the nine rules in the order written
infer(normalized) ==
    rule_contains_letter(normalized,
     rule_first_vowel(normalized,
      rule_letter(normalized,
       rule_at_most(normalized,
        rule_shorter_than(normalized,
         rule_at_least(normalized,
          rule_longer_than(normalized,
           rule_single_word(normalized,
            rule_palindrome(normalized, EmptyDict)))))))))

\* the comparison the wrong way round
ConflictingBoundsSwapped(min_length, max_length) ==
    /\ IsSome(min_length)
    /\ IsSome(max_length)
    /\ Val(min_length) < Val(max_length)

\* lines 178-182 and 224-228: min_length > max_length with both present
ConflictingBounds(min_length, max_length) ==
    /\ IsSome(min_length)
    /\ IsSome(max_length)
    /\ Val(min_length) > Val(max_length)

UnableToParse == HTTPException(HTTP_400_BAD_REQUEST, "Unable to parse natural language query")

ConflictingFilters ==
    HTTPException(HTTP_422_UNPROCESSABLE_ENTITY,
                  "Query parsed but resulted in conflicting filters")

\* lines 178-188
check_bounds(filters) ==
    IF ConflictingBounds(filters.min_length, filters.max_length)
    THEN ConflictingFilters
    ELSE Return(filters)

\* lines 170-176
build_filters(kwargs) ==
    IF ~AppliedFiltersValid(kwargs)
    THEN ConflictingFilters
    ELSE check_bounds(AppliedFilters(kwargs))

\* lines 164-171
parse_inferred(inferred) ==
    IF DOMAIN inferred = {}
    THEN UnableToParse
    ELSE build_filters([k \in DOMAIN inferred |-> Some(inferred[k])])

\* lines 115-162
parse_normalized(normalized) ==
    IF normalized = ""
    THEN UnableToParse
    ELSE parse_inferred(infer(normalized))

_parse_natural_language_query(query) == parse_normalized(lower(strip(query)))

---------------------------------------------------------------------------
(* src/utils.py and the resources of src/api.py *)

length(value) == Len(value)

\* casefold() is lower() on the characters modelled
is_palindrome(value) ==
    LET normalized == lower(strip(value))
    IN  normalized = reversed(normalized)

unique_characters(value) == Cardinality(CharsOf(value))

word_count(value) == SplitCount(value)

\* the hex digest, kept symbolic: distinct values have distinct digests
sha256_hash(value) == <<"sha256", value>>

\* character_frequency_map is left out: no handler reads it
_build_properties(value) ==
    [length |-> length(value),
     is_palindrome |-> is_palindrome(value),
     unique_characters |-> unique_characters(value),
     word_count |-> word_count(value),
     sha256_hash |-> sha256_hash(value)]

\* created_at: Some(t) as given, or None for datetime.utcnow()
_build_resource(value, created_at) ==
    [id |-> _build_properties(value).sha256_hash,
     value |-> value,
     properties |-> _build_properties(value),
     created_at |-> IF IsSome(created_at) THEN Val(created_at) ELSE clock]

---------------------------------------------------------------------------
(* src/api.py: _apply_filters and _parsed_filters_or_none *)

\* min_length as an exclusive bound
skips_exclusive_min(record, filters) ==
    LET props == record.properties
    IN  \/ /\ IsSome(filters.is_palindrome)
           /\ props.is_palindrome # Val(filters.is_palindrome)
        \/ /\ IsSome(filters.min_length)
           /\ props.length <= Val(filters.min_length)
        \/ /\ IsSome(filters.max_length)
           /\ props.length > Val(filters.max_length)
        \/ /\ IsSome(filters.word_count)
           /\ props.word_count # Val(filters.word_count)
        \/ /\ IsSome(filters.contains_character)
           /\ LET target == lower(Val(filters.contains_character))
              IN  ~Contains(lower(record.value), target)

\* lines 79-93: TRUE when the loop body reaches a continue for this record
skips(record, filters) ==
    LET props == record.properties
    IN  \/ /\ IsSome(filters.is_palindrome)
           /\ props.is_palindrome # Val(filters.is_palindrome)
        \/ /\ IsSome(filters.min_length)
           /\ props.length < Val(filters.min_length)
        \/ /\ IsSome(filters.max_length)
           /\ props.length > Val(filters.max_length)
        \/ /\ IsSome(filters.word_count)
           /\ props.word_count # Val(filters.word_count)
        \/ /\ IsSome(filters.contains_character)
           /\ LET target == lower(Val(filters.contains_character))
              IN  ~Contains(lower(record.value), target)

\* the for loop from index i on, results being the list built so far
RECURSIVE apply_loop(_, _, _, _)
apply_loop(records, filters, i, results) ==
    IF i > Len(records) THEN results
    ELSE apply_loop(records, filters, i + 1,
                    IF skips(records[i], filters)
                    THEN results
                    ELSE Append(results, records[i]))

_apply_filters(records, filters) == apply_loop(records, filters, 1, <<>>)

\* truthiness of the values instead of emptiness of the dict
_parsed_filters_or_none_any(filters) ==
    LET dump == model_dump_exclude_none(filters)
        truthy(k) == IF k = "is_palindrome" THEN dump[k]
                     ELSE IF k = "contains_character" THEN dump[k] # ""
                     ELSE dump[k] # 0
    IN  IF \E k \in DOMAIN dump : truthy(k)
        THEN Some(filters)
        ELSE Nothing

\* a non-empty dict is truthy
_parsed_filters_or_none(filters) ==
    IF DOMAIN model_dump_exclude_none(filters) # {}
    THEN Some(filters)
    ELSE Nothing

---------------------------------------------------------------------------
(* Inputs *)

MaxPhrases == 2

MaxRecords == 2

Phrases ==
    {"Palindromes", "single word", "longer than 3 characters",
     "longer than 10 characters", "at least 5", "at least 5 characters",
     "at least 12 characters", "shorter than 0 characters", "at most 3 characters",
     "No More Than 6\tCharacter", "containing the letter z", "first vowel",
     "xyz", "  "}

\* the phrases joined by ", ", at most n of them
RECURSIVE QueriesOf(_)
QueriesOf(n) ==
    IF n = 0 THEN {""}
    ELSE Phrases \cup {""}
         \cup {q \o ", " \o p : q \in (QueriesOf(n - 1) \ {""}), p \in Phrases}

Queries == QueriesOf(MaxPhrases)

Values == {"", "civic", "Banana", "ab cd"}

OptionalOf(S) == {Nothing} \cup {Some(v) : v \in S}

FilterSets ==
    [is_palindrome : OptionalOf(BOOLEAN),
     min_length : OptionalOf({0, 5}),
     max_length : OptionalOf({-1, 0, 5}),
     word_count : OptionalOf({0, 1}),
     contains_character : OptionalOf({"A", "c"})]

RECURSIVE SeqsUpTo(_, _)
SeqsUpTo(S, n) ==
    IF n = 0 THEN {<<>>}
    ELSE SeqsUpTo(S, n - 1)
         \cup {Append(q, x) : q \in {r \in SeqsUpTo(S, n - 1) : Len(r) = n - 1}, x \in S}

---------------------------------------------------------------------------
(* Direct calls of the two pure functions *)

NumThreads == 2

Threads == 1..NumThreads

Idle == [t \in Threads |-> "idle"]

NoFrames == [t \in Threads |-> Nothing]

NothingSeen == [t \in Threads |-> {}]

InitFunctions ==
    /\ _STRING_STORE = <<>>
    /\ clock = 0
    /\ \/ \E query \in Queries :
            request = Some([fn |-> "_parse_natural_language_query", query |-> query])
       \/ \E values \in SeqsUpTo(Values, MaxRecords), filters \in FilterSets :
            request = Some([fn |-> "_apply_filters",
                            records |-> [i \in 1..Len(values) |->
                                            _build_resource(values[i], Some(i))],
                            filters |-> filters])
    /\ response = Nothing
    /\ pc = Idle
    /\ frame = NoFrames
    /\ seen = NothingSeen

call_parse_natural_language_query ==
    /\ response = Nothing
    /\ Val(request).fn = "_parse_natural_language_query"
    /\ response' = Some(_parse_natural_language_query(Val(request).query))
    /\ UNCHANGED <<_STRING_STORE, clock, request, threads>>

call_apply_filters ==
    /\ response = Nothing
    /\ Val(request).fn = "_apply_filters"
    /\ response' = Some(Return(_apply_filters(Val(request).records, Val(request).filters)))
    /\ UNCHANGED <<_STRING_STORE, clock, request, threads>>

NextFunctions == call_parse_natural_language_query \/ call_apply_filters

SpecFunctions == InitFunctions /\ [][NextFunctions]_vars

---------------------------------------------------------------------------
(* _STRING_STORE: a dict keeps its entries in insertion order; a deleted entry  *)
(* leaves an empty slot behind and a new key is appended after the last slot.   *)

dict_values(d) ==
    LET live(slot) == IsSome(slot)
        slots == SelectSeq(d, live)
    IN  [i \in 1..Len(slots) |-> Val(slots[i])]

dict_len(d) == Len(dict_values(d))

dict_contains(d, key) ==
    \E i \in 1..Len(d) : IsSome(d[i]) /\ Val(d[i]).value = key

\* d.get(key): Optional resource
dict_get(d, key) ==
    IF dict_contains(d, key)
    THEN d[CHOOSE i \in 1..Len(d) : IsSome(d[i]) /\ Val(d[i]).value = key]
    ELSE Nothing

\* d[key] = resource: in place when the key is present, appended otherwise
dict_setitem(d, key, resource) ==
    IF dict_contains(d, key)
    THEN [i \in 1..Len(d) |->
            IF IsSome(d[i]) /\ Val(d[i]).value = key THEN Some(resource) ELSE d[i]]
    ELSE Append(d, Some(resource))

\* d.pop(key, None)
dict_pop(d, key) ==
    [i \in 1..Len(d) |->
        IF IsSome(d[i]) /\ Val(d[i]).value = key THEN Nothing ELSE d[i]]

---------------------------------------------------------------------------
(* HTTP responses *)

Response(code, body) == [status_code |-> code, body |-> body]

ErrorResponse(exc) == [status_code |-> exc.status_code, detail |-> exc.detail]

IsSuccess(resp) == resp.status_code \in {HTTP_200_OK, HTTP_201_CREATED, HTTP_204_NO_CONTENT}

\* Python values of a JSON body, tagged with their type
PyStr(s) == [type |-> "str", str |-> s]

PyInt(n) == [type |-> "int", int |-> n]

MaxClock == 2

---------------------------------------------------------------------------
(* src/api.py: the handlers, each run from its first line to its return *)

\* lines 57-69: the store and the resource returned
store_string(d, value, created_at) ==
    LET existing == dict_get(d, value)
        resource == _build_resource(value, created_at)
    IN  IF IsSome(existing)
        THEN [store |-> d, resource |-> Val(existing), built |-> FALSE]
        ELSE [store |-> dict_setitem(d, value, resource), resource |-> resource,
              built |-> TRUE]

create_string(payload) ==
    IF "value" \notin DOMAIN payload
    THEN /\ response' = Some(ErrorResponse(HTTPException(HTTP_400_BAD_REQUEST,
                            "Invalid request body or missing \"value\" field")))
         /\ UNCHANGED <<_STRING_STORE, clock>>
    ELSE IF payload["value"].type # "str"
    THEN /\ response' = Some(ErrorResponse(HTTPException(HTTP_422_UNPROCESSABLE_ENTITY,
                            "Invalid data type for \"value\" (must be string)")))
         /\ UNCHANGED <<_STRING_STORE, clock>>
    ELSE IF dict_contains(_STRING_STORE, payload["value"].str)
    THEN /\ response' = Some(ErrorResponse(HTTPException(HTTP_409_CONFLICT,
                            "String already exists in the system")))
         /\ UNCHANGED <<_STRING_STORE, clock>>
    ELSE LET stored == store_string(_STRING_STORE, payload["value"].str, Nothing)
         IN  /\ clock < MaxClock
             /\ _STRING_STORE' = stored.store
             /\ clock' = IF stored.built THEN clock + 1 ELSE clock
             /\ response' = Some(Response(HTTP_201_CREATED, stored.resource))

get_string(string_value) ==
    LET resource == dict_get(_STRING_STORE, string_value)
    IN  /\ response' =
            IF ~IsSome(resource)
            THEN Some(ErrorResponse(HTTPException(HTTP_404_NOT_FOUND,
                        "String does not exist in the system")))
            ELSE Some(Response(HTTP_200_OK, Val(resource)))
        /\ UNCHANGED <<_STRING_STORE, clock>>

delete_string(string_value) ==
    IF ~dict_contains(_STRING_STORE, string_value)
    THEN /\ response' = Some(ErrorResponse(HTTPException(HTTP_404_NOT_FOUND,
                            "String does not exist in the system")))
         /\ UNCHANGED <<_STRING_STORE, clock>>
    ELSE /\ _STRING_STORE' = dict_pop(_STRING_STORE, string_value)
         /\ response' = Some(Response(HTTP_204_NO_CONTENT, Nothing))
         /\ UNCHANGED clock

\* lines 217-221: the Query(...) constraints FastAPI checks before the handler runs
QueryParamsValid(params) ==
    /\ IsSome(params.min_length) => Val(params.min_length) >= 0
    /\ IsSome(params.max_length) => Val(params.max_length) >= 0
    /\ IsSome(params.word_count) => Val(params.word_count) >= 0
    /\ IsSome(params.contains_character) =>
          /\ Len(Val(params.contains_character)) >= 1
          /\ Len(Val(params.contains_character)) <= 1

RequestValidationError ==
    [status_code |-> HTTP_422_UNPROCESSABLE_ENTITY, detail |-> "validation error"]

InvalidQueryParameters ==
    HTTPException(HTTP_400_BAD_REQUEST, "Invalid query parameter values or types")

\* lines 216-253
list_strings(params) ==
    LET kwargs == [k \in FilterFields |-> params[k]]
        filters == AppliedFilters(kwargs)
        filtered_records == _apply_filters(dict_values(_STRING_STORE), filters)
    IN  /\ response' =
            IF ~QueryParamsValid(params)
            THEN Some(RequestValidationError)
            ELSE IF ConflictingBounds(params.min_length, params.max_length)
            THEN Some(ErrorResponse(InvalidQueryParameters))
            ELSE IF ~AppliedFiltersValid(kwargs)
            THEN Some(ErrorResponse(InvalidQueryParameters))
            ELSE Some(Response(HTTP_200_OK,
                        [data |-> filtered_records,
                         count |-> Len(filtered_records),
                         filters_applied |-> _parsed_filters_or_none(filters)]))
        /\ UNCHANGED <<_STRING_STORE, clock>>

\* lines 267-276
natural_language_response(query, filters, filtered_records) ==
    Response(HTTP_200_OK,
             [data |-> filtered_records,
              count |-> Len(filtered_records),
              interpreted_query |-> [original |-> query, parsed_filters |-> filters]])

\* line 266: an HTTPException raised by the parser ends the request
parsed_response(query, parsed) ==
    IF parsed.raised
    THEN ErrorResponse(parsed)
    ELSE natural_language_response(
            query, parsed.value,
            _apply_filters(dict_values(_STRING_STORE), parsed.value))

\* lines 264-276
filter_by_natural_language(query) ==
    /\ response' = Some(parsed_response(query, _parse_natural_language_query(query)))
    /\ UNCHANGED <<_STRING_STORE, clock>>

---------------------------------------------------------------------------
(* The handlers called one at a time, each on the store the last one left *)

Payloads ==
    {EmptyDict, [value |-> PyInt(5)]} \cup {[value |-> PyStr(v)] : v \in Values}

ListParams ==
    [is_palindrome : OptionalOf(BOOLEAN),
     min_length : OptionalOf({-1, 0, 5}),
     max_length : OptionalOf({-1, 0, 5}),
     word_count : OptionalOf({0, 1}),
     contains_character : OptionalOf({"A", "ab"})]

EndpointQueries ==
    Phrases \cup
    {"", "at least 5 characters, at most 3 characters",
     "longer than 3 characters, at most 3 characters",
     "at least 12 characters, shorter than 0 characters",
     "Palindromes at least 5 characters",
     "single word containing the letter b"}

Init ==
    /\ _STRING_STORE = <<>>
    /\ clock = 0
    /\ request = Nothing
    /\ response = Nothing
    /\ pc = Idle
    /\ frame = NoFrames
    /\ seen = NothingSeen

call_create_string ==
    \E payload \in Payloads :
        /\ request = Nothing
        /\ request' = Some([fn |-> "create_string", payload |-> payload])
        /\ create_string(payload)
        /\ UNCHANGED threads

call_get_string ==
    \E string_value \in Values :
        /\ request = Nothing
        /\ request' = Some([fn |-> "get_string", string_value |-> string_value])
        /\ get_string(string_value)
        /\ UNCHANGED threads

call_delete_string ==
    \E string_value \in Values :
        /\ request = Nothing
        /\ request' = Some([fn |-> "delete_string", string_value |-> string_value])
        /\ delete_string(string_value)
        /\ UNCHANGED threads

call_list_strings ==
    \E params \in ListParams :
        /\ request = Nothing
        /\ request' = Some([fn |-> "list_strings", params |-> params])
        /\ list_strings(params)
        /\ UNCHANGED threads

call_filter_by_natural_language ==
    \E query \in EndpointQueries :
        /\ request = Nothing
        /\ request' = Some([fn |-> "filter_by_natural_language", query |-> query])
        /\ filter_by_natural_language(query)
        /\ UNCHANGED threads

\* the response has been sent: the next call may start
respond ==
    /\ request # Nothing
    /\ request' = Nothing
    /\ response' = Nothing
    /\ UNCHANGED <<_STRING_STORE, clock, threads>>

Next ==
    \/ call_create_string
    \/ call_get_string
    \/ call_delete_string
    \/ call_list_strings
    \/ call_filter_by_natural_language
    \/ respond

Spec == Init /\ [][Next]_vars

---------------------------------------------------------------------------
(* src/main.py and the route decorators of src/api.py: the route table, in the  *)
(* order the routes are registered, and the router's first-full-match dispatch. *)
(* A path is the sequence of its segments: /strings/civic is <<"strings",       *)
(* "civic">>.                                                                   *)

Lit(text) == [lit |-> text]

Param(name) == [param |-> name]

Routes ==
    << [method |-> "GET", path |-> <<Lit("strings"), Param("string_value")>>,
        endpoint |-> "get_string"],
       [method |-> "GET", path |-> <<Lit("strings")>>,
        endpoint |-> "list_strings"],
       [method |-> "GET", path |-> <<Lit("strings"), Lit("filter-by-natural-language")>>,
        endpoint |-> "filter_by_natural_language"],
       [method |-> "DELETE", path |-> <<Lit("strings"), Param("string_value")>>,
        endpoint |-> "delete_string"],
       [method |-> "POST", path |-> <<Lit("strings")>>,
        endpoint |-> "create_string"],
       [method |-> "GET", path |-> <<>>,
        endpoint |-> "healthcheck"] >>

\* a {name} segment matches any non-empty segment, a literal only itself
SegmentMatches(segment, text) ==
    IF "param" \in DOMAIN segment THEN text # "" ELSE segment.lit = text

PathMatches(pattern, path) ==
    /\ Len(pattern) = Len(path)
    /\ \A i \in 1..Len(pattern) : SegmentMatches(pattern[i], path[i])

HTTP_405_METHOD_NOT_ALLOWED == 405

\* the first route whose path and method match serves the request; failing that
\* a route whose path alone matches answers 405, and no route at all 404
route_endpoint(method, path) ==
    LET full == {i \in 1..Len(Routes) :
                    PathMatches(Routes[i].path, path) /\ Routes[i].method = method}
        partial == {i \in 1..Len(Routes) : PathMatches(Routes[i].path, path)}
    IN  IF full # {} THEN Routes[MinOf(full)].endpoint
        ELSE IF partial # {} THEN "method_not_allowed"
        ELSE "not_found"

healthcheck ==
    /\ response' = Some(Response(HTTP_200_OK, [status |-> "ok"]))
    /\ UNCHANGED <<_STRING_STORE, clock>>

no_endpoint(code, text) ==
    /\ response' = Some([status_code |-> code, detail |-> text])
    /\ UNCHANGED <<_STRING_STORE, clock>>

\* the endpoint called with the arguments FastAPI takes from the request; a
\* required argument that is missing is answered 422 before the endpoint runs
serve(endpoint, req) ==
    CASE endpoint = "get_string" -> get_string(req.path[2])
      [] endpoint = "list_strings" -> list_strings(req.params)
      [] endpoint = "filter_by_natural_language" ->
            IF IsSome(req.query)
            THEN filter_by_natural_language(Val(req.query))
            ELSE no_endpoint(HTTP_422_UNPROCESSABLE_ENTITY, "validation error")
      [] endpoint = "delete_string" -> delete_string(req.path[2])
      [] endpoint = "create_string" ->
            IF IsSome(req.payload)
            THEN create_string(Val(req.payload))
            ELSE no_endpoint(HTTP_422_UNPROCESSABLE_ENTITY, "validation error")
      [] endpoint = "healthcheck" -> healthcheck
      [] endpoint = "method_not_allowed" ->
            no_endpoint(HTTP_405_METHOD_NOT_ALLOWED, "Method Not Allowed")
      [] endpoint = "not_found" -> no_endpoint(HTTP_404_NOT_FOUND, "Not Found")

NoParams == [k \in FilterFields |-> Nothing]

HttpListParams ==
    [is_palindrome : OptionalOf({TRUE}),
     min_length : OptionalOf({-1, 5}),
     max_length : OptionalOf({0}),
     word_count : {Nothing},
     contains_character : OptionalOf({"A"})]

StoredNames == {"civic", "Banana", "filter-by-natural-language"}

Paths ==
    {<<>>, <<"strings">>, <<"strings", "civic", "x">>, <<"other">>}
    \cup {<<"strings", name>> : name \in StoredNames}

HttpRequest(method, path, params, query, payload) ==
    [method |-> method, path |-> path, params |-> params, query |-> query,
     payload |-> payload]

GetRequests ==
    {HttpRequest("GET", path, NoParams, Nothing, Nothing) : path \in Paths}
    \cup {HttpRequest("GET", <<"strings">>, params, Nothing, Nothing) :
            params \in HttpListParams}
    \cup {HttpRequest("GET", <<"strings", "filter-by-natural-language">>,
                      NoParams, Some(query), Nothing) : query \in EndpointQueries}

PostRequests ==
    {HttpRequest("POST", path, NoParams, Nothing, Nothing) : path \in Paths}
    \cup {HttpRequest("POST", <<"strings">>, NoParams, Nothing, Some(payload)) :
            payload \in {EmptyDict, [value |-> PyInt(5)]}
                        \cup {[value |-> PyStr(name)] : name \in StoredNames}}

DeleteRequests ==
    {HttpRequest("DELETE", path, NoParams, Nothing, Nothing) : path \in Paths}

http(req) ==
    /\ request = Nothing
    /\ request' = Some([fn |-> "http", http |-> req,
                        endpoint |-> route_endpoint(req.method, req.path)])
    /\ serve(route_endpoint(req.method, req.path), req)
    /\ UNCHANGED threads

http_get == \E req \in GetRequests : http(req)

http_post == \E req \in PostRequests : http(req)

http_delete == \E req \in DeleteRequests : http(req)

NextHTTP == http_get \/ http_post \/ http_delete \/ respond

SpecHTTP == Init /\ [][NextHTTP]_vars

---------------------------------------------------------------------------
(* The handlers run by worker threads (FastAPI runs a def endpoint in a thread   *)
(* pool): a step is one access to _STRING_STORE or to the clock together with    *)
(* the thread-local code up to the next one; pc names the line of the next step. *)

ThreadValues == {"civic", "ab"}

ThreadParams ==
    {NoParams, [NoParams EXCEPT !.is_palindrome = Some(TRUE)]}

ThreadQueries == {"palindromes", "xyz"}

Frame(fn, args, locals) ==
    [fn |-> fn, args |-> args, locals |-> locals, response |-> Nothing]

Answer(f, resp) == [f EXCEPT !.response = Some(resp)]

\* the store contents each request in progress has been exposed to
Track(pc_after, store_after) ==
    [u \in Threads |->
        IF pc_after[u] = "idle" THEN {}
        ELSE IF pc[u] = "idle" THEN {dict_values(store_after)}
        ELSE IF pc[u] = "done" THEN seen[u]
        ELSE seen[u] \cup {dict_values(store_after)}]

\* thread t moves to position p with frame f, the store becoming d
Step(t, p, f, d) ==
    /\ pc' = [pc EXCEPT ![t] = p]
    /\ frame' = [frame EXCEPT ![t] = f]
    /\ _STRING_STORE' = d
    /\ seen' = Track([pc EXCEPT ![t] = p], d)
    /\ UNCHANGED <<request, response>>

\* requests that will still read the clock
PendingBuilds ==
    Cardinality({u \in Threads :
        pc[u] \in {"create_string:322", "store_string:63", "store_string:67"}})

\* lines 306-320: a request whose payload carries a str value
begin_create_string(t) ==
    \E value \in ThreadValues :
        /\ pc[t] = "idle"
        /\ clock + PendingBuilds < MaxClock
        /\ Step(t, "create_string:322",
                Frame("create_string", [value |-> value], [resource |-> Nothing]),
                _STRING_STORE)
        /\ UNCHANGED clock

\* lines 322-328: value in _STRING_STORE
create_string_322(t) ==
    /\ pc[t] = "create_string:322"
    /\ IF dict_contains(_STRING_STORE, frame[t].args.value)
       THEN Step(t, "done",
                 Answer(frame[t], ErrorResponse(HTTPException(HTTP_409_CONFLICT,
                            "String already exists in the system"))),
                 _STRING_STORE)
       ELSE Step(t, "store_string:63", frame[t], _STRING_STORE)
    /\ UNCHANGED clock

\* lines 63-65: existing = _STRING_STORE.get(value); the original is returned
store_string_63(t) ==
    /\ pc[t] = "store_string:63"
    /\ IF IsSome(dict_get(_STRING_STORE, frame[t].args.value))
       THEN Step(t, "done",
                 Answer(frame[t],
                        Response(HTTP_201_CREATED,
                                 Val(dict_get(_STRING_STORE, frame[t].args.value)))),
                 _STRING_STORE)
       ELSE Step(t, "store_string:67", frame[t], _STRING_STORE)
    /\ UNCHANGED clock

\* line 67: resource = _build_resource(value), which reads the clock
store_string_67(t) ==
    /\ pc[t] = "store_string:67"
    /\ Step(t, "store_string:68",
            [frame[t] EXCEPT !.locals.resource =
                Some(_build_resource(frame[t].args.value, Nothing))],
            _STRING_STORE)
    /\ clock' = clock + 1

\* lines 68-69: _STRING_STORE[value] = resource; return resource
store_string_68(t) ==
    /\ pc[t] = "store_string:68"
    /\ Step(t, "done",
            Answer(frame[t], Response(HTTP_201_CREATED, Val(frame[t].locals.resource))),
            dict_setitem(_STRING_STORE, frame[t].args.value,
                         Val(frame[t].locals.resource)))
    /\ UNCHANGED clock

begin_delete_string(t) ==
    \E string_value \in ThreadValues :
        /\ pc[t] = "idle"
        /\ Step(t, "delete_string:288",
                Frame("delete_string", [string_value |-> string_value], <<>>),
                _STRING_STORE)
        /\ UNCHANGED clock

\* lines 288-292: string_value not in _STRING_STORE
delete_string_288(t) ==
    /\ pc[t] = "delete_string:288"
    /\ IF ~dict_contains(_STRING_STORE, frame[t].args.string_value)
       THEN Step(t, "done",
                 Answer(frame[t], ErrorResponse(HTTPException(HTTP_404_NOT_FOUND,
                            "String does not exist in the system"))),
                 _STRING_STORE)
       ELSE Step(t, "delete_string:293", frame[t], _STRING_STORE)
    /\ UNCHANGED clock

\* line 293: _STRING_STORE.pop(string_value, None)
delete_string_293(t) ==
    /\ pc[t] = "delete_string:293"
    /\ Step(t, "done", Answer(frame[t], Response(HTTP_204_NO_CONTENT, Nothing)),
            dict_pop(_STRING_STORE, frame[t].args.string_value))
    /\ UNCHANGED clock

\* lines 198-206: one access to the store
thread_get_string(t) ==
    \E string_value \in ThreadValues :
        /\ pc[t] = "idle"
        /\ Step(t, "done",
                Answer(Frame("get_string", [string_value |-> string_value], <<>>),
                       IF dict_contains(_STRING_STORE, string_value)
                       THEN Response(HTTP_200_OK, Val(dict_get(_STRING_STORE, string_value)))
                       ELSE ErrorResponse(HTTPException(HTTP_404_NOT_FOUND,
                                "String does not exist in the system"))),
                _STRING_STORE)
        /\ UNCHANGED clock

\* iter(_STRING_STORE.values()): the iterator remembers the size of the dict, the
\* slot it has reached and how many values it may still yield; results = []
NewIterator(filters) ==
    [filters |-> filters,
     di_used |-> dict_len(_STRING_STORE),
     di_pos |-> 1,
     len |-> dict_len(_STRING_STORE),
     results |-> <<>>]

\* the slots at or after di_pos that hold a value
LiveFrom(d, di_pos) == {i \in di_pos..Len(d) : IsSome(d[i])}

\* lines 249-253 and 268-276: the response built from the list returned
EvaluatedResponse(f, filtered_records) ==
    IF f.fn = "list_strings"
    THEN Response(HTTP_200_OK,
                  [data |-> filtered_records,
                   count |-> Len(filtered_records),
                   filters_applied |-> _parsed_filters_or_none(f.locals.filters)])
    ELSE natural_language_response(f.args.query, f.locals.filters, filtered_records)

InternalServerError ==
    [status_code |-> HTTP_500_INTERNAL_SERVER_ERROR, detail |-> "Internal Server Error"]

\* lines 78-97, one turn of the for loop of thread t whose frame is f: next() on
\* the values iterator raises RuntimeError when the dict has changed size since
\* iter() or yields more values than it had (the exception leaves the handler:
\* 500), ends the loop when no slot is left, and otherwise yields the next value
\* to the loop body
loop_turn(t, f) ==
    IF f.locals.di_used # dict_len(_STRING_STORE)
    THEN Step(t, "done", Answer(f, InternalServerError), _STRING_STORE)
    ELSE IF LiveFrom(_STRING_STORE, f.locals.di_pos) = {}
    THEN Step(t, "done", Answer(f, EvaluatedResponse(f, f.locals.results)),
              _STRING_STORE)
    ELSE IF f.locals.len = 0
    THEN Step(t, "done", Answer(f, InternalServerError), _STRING_STORE)
    ELSE Step(t, "_apply_filters:78",
              [f EXCEPT
                 !.locals.di_pos = MinOf(LiveFrom(_STRING_STORE, f.locals.di_pos)) + 1,
                 !.locals.len = f.locals.len - 1,
                 !.locals.results =
                     apply_loop(
                         <<Val(_STRING_STORE[
                             MinOf(LiveFrom(_STRING_STORE, f.locals.di_pos))])>>,
                         f.locals.filters, 1, f.locals.results)],
              _STRING_STORE)

\* lines 224-248 and 77-78 for parameters that pass validation: the interpreter
\* switches threads on the jump back to line 78, not between iter() and the
\* first next(), so the first turn of the loop belongs to this step
begin_list_strings(t) ==
    \E params \in ThreadParams :
        /\ pc[t] = "idle"
        /\ loop_turn(t, Frame("list_strings", [params |-> params],
                              NewIterator(AppliedFilters(
                                  [k \in FilterFields |-> params[k]]))))
        /\ UNCHANGED clock

\* lines 266-267 and 77-78; an HTTPException of the parser ends the request
begin_filter_by_natural_language(t) ==
    \E query \in ThreadQueries :
        /\ pc[t] = "idle"
        /\ IF _parse_natural_language_query(query).raised
           THEN Step(t, "done",
                     Answer(Frame("filter_by_natural_language", [query |-> query], <<>>),
                            ErrorResponse(_parse_natural_language_query(query))),
                     _STRING_STORE)
           ELSE loop_turn(t, Frame("filter_by_natural_language", [query |-> query],
                                   NewIterator(
                                       _parse_natural_language_query(query).value)))
        /\ UNCHANGED clock

\* a later turn of the loop
apply_filters_78(t) ==
    /\ pc[t] = "_apply_filters:78"
    /\ loop_turn(t, frame[t])
    /\ UNCHANGED clock

\* the response has been sent: the worker is free again
finish(t) ==
    /\ pc[t] = "done"
    /\ Step(t, "idle", Nothing, _STRING_STORE)
    /\ UNCHANGED clock

NextThreads ==
    \E t \in Threads :
        \/ begin_create_string(t)
        \/ create_string_322(t)
        \/ store_string_63(t)
        \/ store_string_67(t)
        \/ store_string_68(t)
        \/ begin_delete_string(t)
        \/ delete_string_288(t)
        \/ delete_string_293(t)
        \/ thread_get_string(t)
        \/ begin_list_strings(t)
        \/ begin_filter_by_natural_language(t)
        \/ apply_filters_78(t)
        \/ finish(t)

SpecThreads == Init /\ [][NextThreads]_vars

---------------------------------------------------------------------------
(* Properties of the pure functions, checked under SpecFunctions *)

ParseAnswered ==
    /\ IsSome(request)
    /\ Val(request).fn = "_parse_natural_language_query"
    /\ IsSome(response)

ParseReturned == ParseAnswered /\ ~Val(response).raised

ApplyAnswered ==
    /\ IsSome(request)
    /\ Val(request).fn = "_apply_filters"
    /\ IsSome(response)

\* C1 as stated: the queries "longer than 3 characters, at least 5" and
\* "at least 5, longer than 3 characters" both yield min_length = 5.
C1_AsStated ==
    (/\ ParseAnswered
     /\ Val(request).query \in {"longer than 3 characters, at least 5",
                                "at least 5, longer than 3 characters"})
    => /\ ~Val(response).raised
       /\ Val(response).value.min_length = Some(5)

\* C1 amended: with the word "characters" after the 5 ("longer than 3 characters,
\* at least 5 characters" and "at least 5 characters, longer than 3 characters")
\* both orders yield min_length = 5; without it the "at least" pattern does not
\* match and both queries of the claim yield min_length = 4.
C1_FixedRuleOrder ==
    /\ (/\ ParseAnswered
        /\ Val(request).query \in {"longer than 3 characters, at least 5 characters",
                                   "at least 5 characters, longer than 3 characters"})
       => /\ ~Val(response).raised
          /\ Val(response).value.min_length = Some(5)
    /\ (/\ ParseAnswered
        /\ Val(request).query \in {"longer than 3 characters, at least 5",
                                   "at least 5, longer than 3 characters"})
       => /\ ~Val(response).raised
          /\ Val(response).value.min_length = Some(4)

C1_Witness ==
    /\ ParseReturned
    /\ Val(request).query = "at least 5 characters, longer than 3 characters"
    /\ Val(response).value.min_length = Some(5)

\* a record satisfies a filter set when it meets every predicate that is present
Satisfies(record, filters) ==
    /\ IsSome(filters.is_palindrome) =>
          record.properties.is_palindrome = Val(filters.is_palindrome)
    /\ IsSome(filters.min_length) =>
          Val(filters.min_length) <= record.properties.length
    /\ IsSome(filters.max_length) =>
          record.properties.length <= Val(filters.max_length)
    /\ IsSome(filters.word_count) =>
          record.properties.word_count = Val(filters.word_count)
    /\ IsSome(filters.contains_character) =>
          \E i \in 1..Len(record.value) :
              LowerChar(CharAt(record.value, i))
                  = LowerChar(Val(filters.contains_character))

\* out is the subsequence of records at the indices in keep, in increasing order
IsSubsequenceAt(out, records, keep) ==
    /\ Len(out) = Cardinality(keep)
    /\ \A i \in keep : out[Cardinality({j \in keep : j <= i})] = records[i]

EmptyFilterSet ==
    [is_palindrome |-> Nothing, min_length |-> Nothing, max_length |-> Nothing,
     word_count |-> Nothing, contains_character |-> Nothing]

\* C4: _apply_filters returns exactly the input records that satisfy every present
\* predicate, in the input's order, nothing added, dropped, duplicated or
\* reordered; the empty filter set returns the input and an empty input returns
\* an empty output.
C4_ExactSubsequence ==
    ApplyAnswered =>
        /\ ~Val(response).raised
        /\ IsSubsequenceAt(
               Val(response).value, Val(request).records,
               {i \in 1..Len(Val(request).records) :
                    Satisfies(Val(request).records[i], Val(request).filters)})
        /\ Val(request).filters = EmptyFilterSet =>
               Val(response).value = Val(request).records
        /\ Val(request).records = <<>> => Val(response).value = <<>>

C4_Witness ==
    /\ ApplyAnswered
    /\ Val(request).filters.contains_character = Some("A")
    /\ Val(request).filters.min_length = Some(5)
    /\ Len(Val(request).records) = 2
    /\ Val(request).records[1].value = "civic"
    /\ Val(request).records[2].value = "Banana"
    /\ Len(Val(response).value) = 1
    /\ Val(response).value[1].value = "Banana"

\* some recognition rule matches the normalized text
AnyRuleFires(normalized) ==
    \/ Contains(normalized, "palindrom")
    \/ Contains(normalized, "single word")
    \/ Contains(normalized, "one word")
    \/ re_search_number(<<"longer than">>, normalized).found
    \/ re_search_number(<<"at least">>, normalized).found
    \/ re_search_number(<<"shorter than">>, normalized).found
    \/ re_search_number(<<"at most", "no more than">>, normalized).found
    \/ re_search_letter(<<"letter", "character">>, normalized).found
    \/ Contains(normalized, "first vowel")
    \/ re_search_letter(<<"containing the letter", "contain the letter">>, normalized).found

IsParseError(outcome) ==
    /\ outcome.raised
    /\ outcome.status_code = HTTP_400_BAD_REQUEST
    /\ outcome.detail = "Unable to parse natural language query"

ParseErrorExpected(normalized) == normalized = "" \/ ~AnyRuleFires(normalized)

\* C5: extraction fails with the parse error exactly when the trimmed, lowercased
\* query is empty or no recognition rule fires; then no filter set is produced,
\* and any other error is raised only when some rule has fired.
C5_ParseErrorIff ==
    ParseAnswered =>
        /\ IsParseError(Val(response))
              <=> ParseErrorExpected(lower(strip(Val(request).query)))
        /\ Val(response).raised => "value" \notin DOMAIN Val(response)
        /\ (Val(response).raised /\ ~IsParseError(Val(response)))
              => AnyRuleFires(lower(strip(Val(request).query)))

C5_Witness ==
    /\ ParseAnswered
    /\ Val(request).query = "xyz"
    /\ IsParseError(Val(response))

\* the min_length the two length rules call for on this normalized text
ExpectedMinLength(longer_match, at_least_match) ==
    IF longer_match.found /\ at_least_match.found
    THEN Some(Max(int(at_least_match.group1), int(longer_match.group1) + 1))
    ELSE IF at_least_match.found THEN Some(int(at_least_match.group1))
    ELSE IF longer_match.found THEN Some(int(longer_match.group1) + 1)
    ELSE Nothing

\* C9: when "longer than M character" and "at least N character" both match,
\* min_length = max(N, M + 1) whichever phrase comes first; when only "at least"
\* matches min_length = N, when only "longer than" matches min_length = M + 1.
C9_MinLengthMerge ==
    ParseReturned =>
        Val(response).value.min_length =
            ExpectedMinLength(
                re_search_number(<<"longer than">>, lower(strip(Val(request).query))),
                re_search_number(<<"at least">>, lower(strip(Val(request).query))))

C9_Witness ==
    /\ ParseReturned
    /\ Val(request).query = "at least 5 characters, longer than 10 characters"
    /\ Val(response).value.min_length = Some(11)

---------------------------------------------------------------------------
(* Properties of the handlers, checked under Spec *)

Answered(fn) ==
    /\ IsSome(request)
    /\ Val(request).fn = fn
    /\ IsSome(response)

HasConflict(filters) ==
    /\ filters.min_length # Nothing
    /\ filters.max_length # Nothing
    /\ filters.min_length[1] > filters.max_length[1]

\* the min_length and max_length the rules infer from a query
InferredBounds(inferred) ==
    [min_length |-> IF "min_length" \in DOMAIN inferred
                    THEN Some(inferred["min_length"]) ELSE Nothing,
     max_length |-> IF "max_length" \in DOMAIN inferred
                    THEN Some(inferred["max_length"]) ELSE Nothing]

\* C2: from either entry point a predicate set with min_length > max_length ends
\* in an error with no matches returned; every filter set evaluated and echoed
\* has min_length <= max_length when both are present.
C2_ConflictRejected ==
    /\ Answered("list_strings") =>
          /\ HasConflict(Val(request).params) =>
                /\ ~IsSuccess(Val(response))
                /\ "body" \notin DOMAIN Val(response)
          /\ (IsSuccess(Val(response))
                /\ IsSome(Val(response).body.filters_applied)) =>
                ~HasConflict(Val(Val(response).body.filters_applied))
    /\ Answered("filter_by_natural_language") =>
          /\ HasConflict(InferredBounds(infer(lower(strip(Val(request).query))))) =>
                /\ ~IsSuccess(Val(response))
                /\ "body" \notin DOMAIN Val(response)
          /\ IsSuccess(Val(response)) =>
                ~HasConflict(Val(response).body.interpreted_query.parsed_filters)

C2_Witness ==
    /\ Answered("filter_by_natural_language")
    /\ Val(request).query = "at least 5 characters, at most 3 characters"
    /\ Val(response).status_code = HTTP_422_UNPROCESSABLE_ENTITY

HasNegativeLength(filters) ==
    \/ IsSome(filters.min_length) /\ Val(filters.min_length) < 0
    \/ IsSome(filters.max_length) /\ Val(filters.max_length) < 0

\* C3: on both entry points a filter set with a negative min_length or max_length
\* is never accepted: no successful response evaluates or echoes one.
C3_NegativeLengthRejected ==
    /\ (Answered("list_strings") /\ IsSuccess(Val(response))
          /\ IsSome(Val(response).body.filters_applied)) =>
          ~HasNegativeLength(Val(Val(response).body.filters_applied))
    /\ (Answered("filter_by_natural_language") /\ IsSuccess(Val(response))) =>
          ~HasNegativeLength(Val(response).body.interpreted_query.parsed_filters)

AllAbsent(params) == \A k \in FilterFields : params[k] = Nothing

RecordsOf(seq) == {seq[i] : i \in 1..Len(seq)}

\* C8: on the structured path filters_applied is None iff all five fields were
\* absent; a field present with a falsy value is echoed as given and enforced:
\* the data are exactly the stored records that satisfy every present field.
C8_EchoIffPresent ==
    (Answered("list_strings") /\ IsSuccess(Val(response))) =>
        /\ Val(response).body.filters_applied = Nothing
              <=> AllAbsent(Val(request).params)
        /\ ~AllAbsent(Val(request).params) =>
              \A k \in FilterFields :
                  Val(Val(response).body.filters_applied)[k] = Val(request).params[k]
        /\ RecordsOf(Val(response).body.data) =
              {r \in RecordsOf(dict_values(_STRING_STORE)) :
                    Satisfies(r, Val(request).params)}

C8_Witness ==
    /\ Answered("list_strings")
    /\ IsSuccess(Val(response))
    /\ Val(request).params =
          [is_palindrome |-> Some(FALSE), min_length |-> Some(0),
           max_length |-> Some(0), word_count |-> Some(0),
           contains_character |-> Nothing]
    /\ dict_len(_STRING_STORE) = 2
    /\ Val(response).body.filters_applied = Some(Val(request).params)
    /\ Val(response).body.data = <<>>

---------------------------------------------------------------------------
(* Properties of the route table, checked under SpecHTTP *)

\* C6: a GET /strings/filter-by-natural-language request with a parseable query
\* is served by filter_by_natural_language whatever the store holds: it returns
\* the interpreted filter set, the matches and their count, and is never served
\* by get_string as the lookup of a string of that name.
C6_FreeTextRouteServed ==
    (/\ Answered("http")
     /\ Val(request).http.method = "GET"
     /\ Val(request).http.path = <<"strings", "filter-by-natural-language">>
     /\ IsSome(Val(request).http.query)
     /\ ~_parse_natural_language_query(Val(Val(request).http.query)).raised)
    => /\ Val(request).endpoint = "filter_by_natural_language"
       /\ Val(request).endpoint # "get_string"
       /\ IsSuccess(Val(response))
       /\ "interpreted_query" \in DOMAIN Val(response).body
       /\ Val(response).body.count = Len(Val(response).body.data)

---------------------------------------------------------------------------
(* Properties of the handlers run concurrently, checked under SpecThreads *)

Evaluated(t) ==
    /\ pc[t] = "done"
    /\ frame[t].fn \in {"list_strings", "filter_by_natural_language"}
    /\ "filters" \in DOMAIN frame[t].locals

\* C7: whatever create_string and delete_string requests run alongside it, a
\* list or filter request that reaches the evaluator completes without error and
\* returns the filter applied to the contents the store had at one single moment
\* of the request.
C7_SnapshotEvaluation ==
    \A t \in Threads :
        Evaluated(t) =>
            /\ Val(frame[t].response).status_code = HTTP_200_OK
            /\ \E snapshot \in seen[t] :
                   Val(frame[t].response).body.data
                       = _apply_filters(snapshot, frame[t].locals.filters)

Answers(t, fn, code) ==
    /\ pc[t] # "done"
    /\ pc'[t] = "done"
    /\ frame'[t].fn = fn
    /\ Val(frame'[t].response).status_code = code

\* C10: of the create_string requests that carry one value and overlap, exactly
\* one is answered 201 and the others 409, and the record stored is the one that
\* request returns: a request is answered 201 only by the step that puts its
\* value into a store that did not hold it, with the record it returns.
C10_SingleCreator ==
    [][\A t \in Threads :
          Answers(t, "create_string", HTTP_201_CREATED) =>
              /\ ~dict_contains(_STRING_STORE, frame[t].args.value)
              /\ dict_get(_STRING_STORE', frame[t].args.value)
                    = Some(Val(frame'[t].response).body)]_vars

====
